---- MODULE Spec2Model ----
(***************************************************************************)
(* A model of the FIX tag-value codec of src/fasters/src/encoders/         *)
(* tagvalue.rs: the rolling checksum, the tag lookup, the field value      *)
(* parser, the field decoder FieldIter and TagValue::decode / encode.      *)
(*                                                                         *)
(* Bytes are the integers 0..255 and byte strings are sequences of them.   *)
(* The byte source handed to decode is read incrementally: `stream` holds  *)
(* the bytes the source has delivered so far, `pos` counts the bytes the   *)
(* decoder has consumed, and `closed` says that the source has reported    *)
(* its end.  A panic of the Rust code (a failed unwrap, an index out of    *)
(* range) is the result "Panic".                                           *)
(***************************************************************************)
EXTENDS Integers, Sequences, FiniteSets, TLC

VARIABLES
    dict,         \* TagValue.dict: tag -> BaseType, absent tags unknown
    sep,          \* Transmuter::soh_separator() of this codec
    validate_checksum,  \* Transmuter::validate_checksum() of this codec
    stream,       \* the bytes the source has delivered so far
    pos,          \* number of bytes of `stream` already consumed
    closed,       \* the source has no further bytes
    checksum,     \* FieldIter.checksum.0 (u8)
    count,        \* FieldIter.checksum.1 (usize)
    is_last,      \* FieldIter.is_last
    data_length,  \* FieldIter.data_length (u32, as 16-bit halves)
    message,      \* slr::Message.fields being assembled: tag -> value
    last_tag,     \* decode's local last_tag
    pc,           \* where decode stands
    result,       \* what decode returned: Running until it returns
    fields,       \* the Fields the iterator has yielded Ok, in order
    cuts,         \* pos after each yielded Field
    orig          \* <<m>> when the stream was produced by encode(m)

vars == <<dict, sep, validate_checksum, stream, pos, closed, checksum, count, is_last,
          data_length, message, last_tag, pc, result, fields, cuts, orig>>

(***************************************************************************)
(* Bounds of the model.                                                    *)
(***************************************************************************)
\* The source delivers at most this many fields before it ends.
MaxFields == 5

(***************************************************************************)
(* Bytes.                                                                  *)
(***************************************************************************)
EQ == 61
SOH == 1
PIPE == 124

Min(S) == CHOOSE x \in S : \A y \in S : x <= y

IsDigit(b) == b >= 48 /\ b <= 57

IsCont(b) == b >= 128 /\ b <= 191

\* std::str::from_utf8(buf).is_ok(): the well-formed UTF-8 byte sequences.
RECURSIVE IsUtf8(_)
IsUtf8(buf) ==
    IF buf = <<>> THEN TRUE
    ELSE LET b == buf[1]
             n == Len(buf)
         IN  IF b < 128 THEN IsUtf8(Tail(buf))
             ELSE IF b >= 194 /\ b <= 223
                  THEN n >= 2 /\ IsCont(buf[2]) /\ IsUtf8(SubSeq(buf, 3, n))
             ELSE IF b >= 224 /\ b <= 239
                  THEN /\ n >= 3
                       /\ IsCont(buf[2])
                       /\ IsCont(buf[3])
                       /\ (b = 224 => buf[2] >= 160)
                       /\ (b = 237 => buf[2] <= 159)
                       /\ IsUtf8(SubSeq(buf, 4, n))
             ELSE IF b >= 240 /\ b <= 244
                  THEN /\ n >= 4
                       /\ IsCont(buf[2])
                       /\ IsCont(buf[3])
                       /\ IsCont(buf[4])
                       /\ (b = 240 => buf[2] >= 144)
                       /\ (b = 244 => buf[2] <= 143)
                       /\ IsUtf8(SubSeq(buf, 5, n))
             ELSE FALSE

\* The value of a string of decimal digits.
RECURSIVE DigitsValue(_)
DigitsValue(ds) ==
    IF ds = <<>> THEN 0
    ELSE 10 * DigitsValue(SubSeq(ds, 1, Len(ds) - 1)) + (ds[Len(ds)] - 48)

\* str::parse::<i64>(): an optional sign and at least one decimal digit.
\* <<>> is Err, <<n>> is Ok(n).  The digit strings of the model have one or
\* two digits, so the overflow of i64 (Err as well) is never reached.
ParseI64(buf) ==
    LET signed == buf # <<>> /\ buf[1] \in {43, 45}
        ds == IF signed THEN Tail(buf) ELSE buf
    IN  IF ds = <<>> \/ \E i \in 1..Len(ds) : ~IsDigit(ds[i])
        THEN <<>>
        ELSE IF signed /\ buf[1] = 45 THEN <<0 - DigitsValue(ds)>>
        ELSE <<DigitsValue(ds)>>

\* str::parse::<f64>() on the texts of the model's alphabet (sign and digits;
\* no '.', exponent, "inf" or "nan" occurs in it): the same texts parse, to
\* the float of that integer value.
ParseF64(buf) == ParseI64(buf)

\* `l as u32` for an i64 l, kept as two 16-bit halves: hi * 65536 + lo.
AsU32(l) == [hi |-> (l \div 65536) % 65536, lo |-> l % 65536]

\* A u32 kept as halves is at most k (k a small natural number).
AtMost(n, k) == n.hi = 0 /\ n.lo <= k

(***************************************************************************)
(* Checksum(u8, usize).                                                    *)
(***************************************************************************)
\* Variant of roll_byte with saturating_add in place of wrapping_add.
roll_byte_saturating(ck, byte) ==
    <<IF ck[1] + byte > 255 THEN 255 ELSE ck[1] + byte, ck[2] + 1>>

\* Variant of roll_byte that leaves out `self.1 += 1`.
roll_byte_uncounted(ck, byte) == <<(ck[1] + byte) % 256, ck[2]>>

\* Checksum::roll_byte on the pair <<sum, count>>.
roll_byte(ck, byte) == <<(ck[1] + byte) % 256, ck[2] + 1>>

\* Checksum::roll.
RECURSIVE roll(_, _)
roll(ck, window) ==
    IF window = <<>> THEN ck
    ELSE roll(roll_byte(ck, window[1]), Tail(window))

\* Checksum::window_length.
window_length(ck) == ck[2]

(***************************************************************************)
(* StandardTagLookup::lookup and field_value.                              *)
(***************************************************************************)
BaseTypes == {"Int", "Float", "Char", "String", "Data"}

\* Variant of lookup whose fallback is Char instead of String.
lookupChar(d, tag) ==
    LET u == AsU32(tag)
    IN  IF u.hi = 0 /\ u.lo \in DOMAIN d THEN d[u.lo] ELSE "Char"

\* StandardTagLookup::lookup: the dictionary's type, String when absent.
lookup(d, tag) ==
    LET u == AsU32(tag)
    IN  IF u.hi = 0 /\ u.lo \in DOMAIN d THEN d[u.lo] ELSE "String"

\* A FixFieldValue: its variant and its payload (the integer, the character
\* byte, or the bytes of the text or data) as a sequence.
Value(t, v) == [type |-> t, v |-> v]

\* field_value: [kind |-> "Ok", value |-> _], [kind |-> "Err"] for
\* Err(Error::Syntax), [kind |-> "Panic"] for the index out of range.
field_value(datatype, buf) ==
    CASE datatype = "Char" ->
            IF buf = <<>> THEN [kind |-> "Panic"]
            ELSE [kind |-> "Ok", value |-> Value("Char", <<buf[1]>>)]
      [] datatype = "String" ->
            IF IsUtf8(buf) THEN [kind |-> "Ok", value |-> Value("String", buf)]
            ELSE [kind |-> "Err"]
      [] datatype = "Data" -> [kind |-> "Ok", value |-> Value("Data", buf)]
      [] datatype = "Float" ->
            IF IsUtf8(buf) /\ ParseF64(buf) # <<>>
            THEN [kind |-> "Ok", value |-> Value("Float", ParseF64(buf))]
            ELSE [kind |-> "Err"]
      [] datatype = "Int" ->
            IF IsUtf8(buf) /\ ParseI64(buf) # <<>>
            THEN [kind |-> "Ok", value |-> Value("Int", ParseI64(buf))]
            ELSE [kind |-> "Err"]

(***************************************************************************)
(* FieldIter::next.                                                        *)
(***************************************************************************)
\* BufRead::read_until(delim) from offset p of s: the bytes up to and
\* including the first delim, or up to the end of the source.
read_until(s, p, delim) ==
    LET hits == {i \in (p + 1)..Len(s) : s[i] = delim}
        e == IF hits = {} THEN Len(s) ELSE Min(hits)
    IN  [buf |-> SubSeq(s, p + 1, e), pos |-> e, eof |-> hits = {}]

\* The state of the iterator that next() reads and writes.
IterState == [ck |-> <<checksum, count>>, is_last |-> is_last,
              data_length |-> data_length]

\* What one call of next() produced and the state it left.
Outcome(kind, p, it, eof) == [kind |-> kind, pos |-> p, it |-> it, eof |-> eof]

Yield(tag, value, p, it) ==
    [kind |-> "Ok", pos |-> p, it |-> it, eof |-> FALSE,
     field |-> [tag |-> tag, value |-> value,
                checksum |-> it.ck[1], len |-> window_length(it.ck)]]

\* Lines 265-274: parse the raw bytes, unwrap, remember an Int as the
\* pending data length, yield the Field.
Finish(tag, datatype, buf, p, it) ==
    LET fv == field_value(datatype, buf)
    IN  IF fv.kind # "Ok" THEN Outcome("Panic", p, it, FALSE)
        ELSE LET it2 == IF fv.value.type = "Int"
                        THEN [it EXCEPT !.data_length = AsU32(fv.value.v[1])]
                        ELSE it
             IN  Yield(tag, fv.value, p, it2)

\* Lines 250-255: the Data branch, from offset p (just after '=').
ReadData(s, p, it, separator, tag) ==
    LET n == it.data_length
    IN  IF ~AtMost(n, Len(s) - p) THEN Outcome("Panic", Len(s), it, TRUE)
        ELSE LET buffer == SubSeq(s, p + 1, p + n.lo)
                 ck2 == roll_byte(roll(it.ck, buffer), separator)
                 it2 == [it EXCEPT !.ck = ck2]
                 q == p + n.lo
             IN  IF n.lo = 0 THEN Outcome("Panic", q, it2, FALSE)
                 ELSE IF q + 1 > Len(s) THEN Outcome("Panic", q, it2, TRUE)
                 ELSE Finish(tag, "Data",
                             [buffer EXCEPT ![1] = s[q + 1]], q + 1, it2)

\* Variant of ReadDelimited that takes the end of the source for a separator.
ReadDelimitedToEnd(s, p, it, separator, tag, datatype) ==
    LET r == read_until(s, p, separator)
        buffer == IF r.eof THEN r.buf ELSE SubSeq(r.buf, 1, Len(r.buf) - 1)
    IN  Finish(tag, datatype, buffer, r.pos,
               [it EXCEPT !.ck = roll(it.ck, buffer)])

\* Lines 256-264: every other type, from offset p (just after '=').
ReadDelimited(s, p, it, separator, tag, datatype) ==
    LET r == read_until(s, p, separator)
    IN  IF r.buf = <<>> \/ r.buf[Len(r.buf)] # separator
        THEN Outcome("Eof", r.pos, it, TRUE)
        ELSE LET buffer == SubSeq(r.buf, 1, Len(r.buf) - 1)
             IN  Finish(tag, datatype, buffer, r.pos,
                        [it EXCEPT !.ck = roll(it.ck, buffer)])

\* Variant of MarkLast that never sets is_last.
MarkLastNever(it, tag) == it

\* Lines 246-248: tag 10 makes this field the last one.
MarkLast(it, tag) == IF tag = 10 THEN [it EXCEPT !.is_last = TRUE] ELSE it

\* FieldIter::next on source s read from offset p, with iterator state it.
\* kind: "None" (end of sequence), "Ok" (a Field), "Eof" (Some(Err(Eof))),
\* "Panic".
next(s, p, it, d, separator) ==
    IF it.is_last THEN Outcome("None", p, it, FALSE)
    ELSE LET r == read_until(s, p, EQ)
         IN  IF r.buf = <<>> THEN Outcome("None", r.pos, it, TRUE)
             ELSE LET tagbuf == SubSeq(r.buf, 1, Len(r.buf) - 1)
                  IN  IF ~IsUtf8(tagbuf) \/ ParseI64(tagbuf) = <<>>
                      THEN Outcome("Panic", r.pos, it, r.eof)
                      ELSE LET tag == ParseI64(tagbuf)[1]
                               it1 == MarkLast(it, tag)
                               datatype == lookup(d, tag)
                           IN  IF datatype = "Data"
                               THEN ReadData(s, r.pos, it1, separator, tag)
                               ELSE ReadDelimited(s, r.pos, it1, separator,
                                                  tag, datatype)

(***************************************************************************)
(* The codecs and the byte sources of the model.                           *)
(***************************************************************************)
\* Dictionary::empty(), and a dictionary typing BodyLength(9) and tag 1 as
\* Int, tag 2 as Data, tag 3 as Char and tag 4 as Float.
EmptyDict == [t \in {} |-> "String"]

TypedDict == [t \in {1, 2, 3, 4, 9} |->
                 CASE t \in {1, 9} -> "Int"
                   [] t = 2 -> "Data"
                   [] t = 3 -> "Char"
                   [] t = 4 -> "Float"]

Dicts == {EmptyDict, TypedDict}

Separators == {SOH, PIPE}

\* The Transmuters of the model: the trait's defaults (lines 24-30), the
\* tests' SimpleTransmuter (lines 336-340), and one that also turns the
\* checksum validation off.
Transmuters ==
    {[soh_separator |-> SOH, validate_checksum |-> TRUE],
     [soh_separator |-> PIPE, validate_checksum |-> TRUE],
     [soh_separator |-> PIPE, validate_checksum |-> FALSE]}

\* Tag texts: "8", "9", "35", "10", "1", "2", "3", "4", "A" and the empty one.
\* Value texts: "A", "1", "0", "2", "-1", the byte 0xFF, the empty one, and
\* texts that hold the separator byte.
FieldTexts(separator) ==
    ({<<56>>} \X {<<65>>, <<49>>, <<255>>, <<>>})
    \cup ({<<57>>} \X {<<65>>, <<48>>, <<49>>})
    \cup ({<<51, 53>>} \X {<<65>>})
    \cup ({<<49, 48>>} \X {<<65>>, <<49>>})
    \cup ({<<49>>} \X {<<48>>, <<49>>, <<50>>, <<45, 49>>, <<65>>, <<>>})
    \cup ({<<50>>} \X {<<>>, <<65>>, <<separator>>, <<separator, 65>>})
    \cup ({<<51>>} \X {<<65>>, <<>>})
    \cup ({<<52>>} \X {<<49>>, <<65>>})
    \cup ({<<65>>, <<>>} \X {<<65>>})

\* What the source may deliver when the decoder asks for more: nothing (its
\* end), a tag cut short, a field with or without its terminating separator,
\* or a trailer followed by the start of the next message.
Chunks(separator) ==
    {<<>>, <<56>>, <<49, 48>>}
    \cup {ft[1] \o <<EQ>> \o ft[2] : ft \in FieldTexts(separator)}
    \cup {ft[1] \o <<EQ>> \o ft[2] \o <<separator>> : ft \in FieldTexts(separator)}
    \cup {<<49, 48, EQ, 65, separator, 56, EQ, 65, separator>>,
          <<49, 48, EQ, 65, separator, 56, EQ, 65>>}

\* The bytes the source delivers to the pull that starts now: none when the
\* pull does not read (is_last, lines 233-235) or still has bytes in front.
Deliveries ==
    IF closed \/ is_last \/ pos < Len(stream) \/ Len(fields) >= MaxFields
    THEN {<<>>}
    ELSE Chunks(sep)

(***************************************************************************)
(* slr::Message and TagValue::decode.                                      *)
(***************************************************************************)
EmptyMessage == [t \in {} |-> Value("String", <<>>)]

\* Variant of insert that keeps the value a tag already has.
insertKeepFirst(m, tag, value) ==
    [t \in DOMAIN m \cup {tag} |-> IF t \in DOMAIN m THEN m[t] ELSE value]

\* HashMap::insert(tag, value).
insert(m, tag, value) ==
    [t \in DOMAIN m \cup {tag} |-> IF t = tag THEN value ELSE m[t]]

\* Variant of Exhausted with the same error at every header stage.
ExhaustedSame(stage) == "InvalidStandardHeader"

\* Lines 58, 67, 76: what ok_or(..) makes of an exhausted iterator.
Exhausted(stage) ==
    IF stage = "BeginString" THEN "Eof" ELSE "InvalidStandardHeader"

\* Variant of HeaderAccepts that compares with >= instead of ==.
HeaderAcceptsFrom(tag, expected) == tag >= expected

\* Lines 59-63, 68-72, 77-81: the tag test of a header field.
HeaderAccepts(tag, expected) == tag = expected

\* Variant of Trailer that, when the Transmuter asks for validation, compares
\* the trailer's value with the checksum rolled before the trailer.
TrailerCompared(last) ==
    IF last # 10 THEN "InvalidStandardTrailer"
    ELSE IF /\ validate_checksum
            /\ ParseI64(fields[Len(fields)].value.v)
                  # <<fields[Len(fields) - 1].checksum>>
         THEN "InvalidChecksum"
         ELSE "Ok"

\* Variant of Trailer that does not look at last_tag.
TrailerUnchecked(last) == "Ok"

\* Lines 89-93: the trailer test.
Trailer(last) == IF last = 10 THEN "Ok" ELSE "InvalidStandardTrailer"

\* decode returns r.
Return(r) ==
    /\ result' = r
    /\ pc' = "Done"

\* Variant of Pulled whose reads leave the source where it was.
PulledInPlace(s, o) ==
    /\ stream' = s
    /\ pos' = pos
    /\ closed' = (closed \/ o.eof)
    /\ checksum' = o.it.ck[1]
    /\ count' = o.it.ck[2]
    /\ is_last' = o.it.is_last
    /\ data_length' = o.it.data_length
    /\ IF o.kind = "Ok"
       THEN fields' = Append(fields, o.field) /\ cuts' = Append(cuts, o.pos)
       ELSE UNCHANGED <<fields, cuts>>

\* The iterator and the source after a call of next() with outcome o on
\* source s.
Pulled(s, o) ==
    /\ stream' = s
    /\ pos' = o.pos
    /\ closed' = (closed \/ o.eof)
    /\ checksum' = o.it.ck[1]
    /\ count' = o.it.ck[2]
    /\ is_last' = o.it.is_last
    /\ data_length' = o.it.data_length
    /\ IF o.kind = "Ok"
       THEN fields' = Append(fields, o.field) /\ cuts' = Append(cuts, o.pos)
       ELSE UNCHANGED <<fields, cuts>>

\* Lines 56-82: one of the three header blocks of decode.
HeaderStep(stage, expected, nextpc) ==
    /\ pc = stage
    /\ \E chunk \in Deliveries :
          LET s == stream \o chunk
              o == next(s, pos, IterState, dict, sep)
          IN  /\ Pulled(s, o)
              /\ CASE o.kind = "None" ->
                        Return(Exhausted(stage)) /\ UNCHANGED <<message, last_tag>>
                   [] o.kind = "Eof" ->
                        Return("Eof") /\ UNCHANGED <<message, last_tag>>
                   [] o.kind = "Panic" ->
                        Return("Panic") /\ UNCHANGED <<message, last_tag>>
                   [] o.kind = "Ok" ->
                        IF HeaderAccepts(o.field.tag, expected)
                        THEN /\ message' = insert(message, o.field.tag, o.field.value)
                             /\ pc' = nextpc
                             /\ last_tag' = IF nextpc = "Body" THEN 35 ELSE last_tag
                             /\ UNCHANGED result
                        ELSE /\ Return("InvalidStandardHeader")
                             /\ UNCHANGED <<message, last_tag>>
    /\ UNCHANGED <<dict, sep, validate_checksum, orig>>

\* Lines 44-55: decode builds the FieldIter and the empty message.
DecodeStart ==
    /\ pc = "Idle"
    /\ pc' = "BeginString"
    /\ checksum' = 0
    /\ count' = 0
    /\ is_last' = FALSE
    /\ data_length' = AsU32(0)
    /\ message' = EmptyMessage
    /\ UNCHANGED <<dict, sep, validate_checksum, stream, pos, closed, last_tag,
                   result, fields,
                   cuts, orig>>

DecodeBeginString == HeaderStep("BeginString", 8, "BodyLength")

DecodeBodyLength == HeaderStep("BodyLength", 9, "MsgType")

\* Variant of DecodeMsgType that repeats the test for tag 9.
DecodeMsgTypeCopied == HeaderStep("MsgType", 9, "Body")

DecodeMsgType == HeaderStep("MsgType", 35, "Body")

\* Lines 84-93: one iteration of the body loop, and the trailer test when the
\* iterator is exhausted.
DecodeBody ==
    /\ pc = "Body"
    /\ \E chunk \in Deliveries :
          LET s == stream \o chunk
              o == next(s, pos, IterState, dict, sep)
          IN  /\ Pulled(s, o)
              /\ CASE o.kind = "None" ->
                        Return(Trailer(last_tag)) /\ UNCHANGED <<message, last_tag>>
                   [] o.kind = "Eof" ->
                        Return("Eof") /\ UNCHANGED <<message, last_tag>>
                   [] o.kind = "Panic" ->
                        Return("Panic") /\ UNCHANGED <<message, last_tag>>
                   [] o.kind = "Ok" ->
                        /\ message' = insert(message, o.field.tag, o.field.value)
                        /\ last_tag' = o.field.tag
                        /\ UNCHANGED <<pc, result>>
    /\ UNCHANGED <<dict, sep, validate_checksum, orig>>

(***************************************************************************)
(* TagValue::encode.                                                       *)
(***************************************************************************)
\* The decimal text of an integer.
RECURSIVE NatText(_)
NatText(n) ==
    IF n < 10 THEN <<48 + n>> ELSE NatText(n \div 10) \o <<48 + (n % 10)>>

IntText(n) == IF n < 0 THEN <<45>> \o NatText(0 - n) ELSE NatText(n)

\* slr::Field::encode: <tag>=<value><separator>, the value in its variant's
\* textual or binary form.
FieldEncode(tag, value, separator) ==
    IntText(tag) \o <<EQ>>
    \o (IF value.type \in {"Int", "Float"} THEN IntText(value.v[1]) ELSE value.v)
    \o <<separator>>

\* Lines 96-108: the fields in the order the map iterates them.
RECURSIVE encode(_, _, _)
encode(m, order, separator) ==
    IF order = <<>> THEN <<>>
    ELSE FieldEncode(order[1], m[order[1]], separator)
         \o encode(m, Tail(order), separator)

\* The iteration orders of a map: the arrangements of its keys.
Orders(m) ==
    {o \in [1..Cardinality(DOMAIN m) -> DOMAIN m] :
        \A i, j \in DOMAIN o : i # j => o[i] # o[j]}

\* Messages with the header and trailer tags, each value of the variant the
\* dictionary d resolves its tag to; the second one has a body field.
HeaderMessage(d) ==
    [t \in {8, 9, 10, 35} |->
        IF lookup(d, t) = "Int" THEN Value("Int", <<1>>)
        ELSE Value("String", <<65>>)]

Messages(d) ==
    {HeaderMessage(d),
     insert(HeaderMessage(d), 2,
            IF lookup(d, 2) = "Data" THEN Value("Data", <<65>>)
            ELSE Value("String", <<65>>))}

\* encode(m), its bytes handed to decode as a source that ends after them.
EncodeCall ==
    /\ pc = "Idle"
    /\ orig = <<>>
    /\ \E m \in Messages(dict) :
          \E order \in Orders(m) :
             /\ stream' = encode(m, order, sep)
             /\ orig' = <<m>>
    /\ closed' = TRUE
    /\ UNCHANGED <<dict, sep, validate_checksum, pos, checksum, count, is_last,
                   data_length,
                   message, last_tag, pc, result, fields, cuts>>

(***************************************************************************)
(* The specification.                                                      *)
(***************************************************************************)
Init ==
    /\ dict \in Dicts
    /\ \E z \in Transmuters :
          /\ sep = z.soh_separator
          /\ validate_checksum = z.validate_checksum
    /\ stream = <<>>
    /\ pos = 0
    /\ closed = FALSE
    /\ checksum = 0
    /\ count = 0
    /\ is_last = FALSE
    /\ data_length = AsU32(0)
    /\ message = EmptyMessage
    /\ last_tag = 0
    /\ pc = "Idle"
    /\ result = "Running"
    /\ fields = <<>>
    /\ cuts = <<>>
    /\ orig = <<>>

Next ==
    \/ EncodeCall
    \/ DecodeStart
    \/ DecodeBeginString
    \/ DecodeBodyLength
    \/ DecodeMsgType
    \/ DecodeBody

Spec == Init /\ [][Next]_vars

(***************************************************************************)
(* What the claims speak of.                                               *)
(***************************************************************************)
Decided == result # "Running"

\* decode returned a value (Ok or an Error) rather than aborting.
Returned == Decided /\ result # "Panic"

\* The index of the first byte b of h, 0 when there is none.
IndexOf(h, b) ==
    IF \E i \in 1..Len(h) : h[i] = b
    THEN Min({i \in 1..Len(h) : h[i] = b})
    ELSE 0

\* The tag a byte string starts with, as a one-element sequence: the decimal
\* integer before its first '='; <<>> when it has no '=' or no integer there.
TagOf(h) ==
    IF IndexOf(h, EQ) = 0 THEN <<>>
    ELSE ParseI64(SubSeq(h, 1, IndexOf(h, EQ) - 1))

\* The bytes of h after its first '='.
AfterEq(h) == SubSeq(h, IndexOf(h, EQ) + 1, Len(h))

\* The bytes of the stream that the i-th yielded field was read from.
Segment(i) == SubSeq(stream, (IF i = 1 THEN 0 ELSE cuts[i - 1]) + 1, cuts[i])

\* The stream cut at every separator byte: its separator-terminated pieces,
\* each without its separator, and a last <<-1>> when bytes follow the last
\* separator.
RECURSIVE Pieces(_, _)
Pieces(h, separator) ==
    IF h = <<>> THEN <<>>
    ELSE IF IndexOf(h, separator) = 0 THEN <<<<-1>>>>
    ELSE <<SubSeq(h, 1, IndexOf(h, separator) - 1)>>
         \o Pieces(SubSeq(h, IndexOf(h, separator) + 1, Len(h)), separator)

\* The index of the last byte b of h, 0 when there is none.
LastIndexOf(h, b) ==
    IF \E i \in 1..Len(h) : h[i] = b
    THEN CHOOSE i \in 1..Len(h) : h[i] = b /\ \A j \in (i + 1)..Len(h) : h[j] # b
    ELSE 0

\* A step in which the field decoder reads from the source: a pull on an
\* iterator that has not met tag 10.
Reads == pc \in {"BeginString", "BodyLength", "MsgType", "Body"} /\ ~is_last

\* The bytes in front of the field decoder during that pull.
Ahead == SubSeq(stream', pos + 1, Len(stream'))

\* The tags of the yielded fields.
Tags == [i \in 1..Len(fields) |-> fields[i].tag]

HeaderYielded ==
    /\ Len(fields) >= 3
    /\ fields[1].tag = 8
    /\ fields[2].tag = 9
    /\ fields[3].tag = 35

(***************************************************************************)
(* C1.  Header enforcement.                                                *)
(***************************************************************************)
\* C1 as stated: whenever decode has returned on a stream whose first field
\* has a tag other than 8 (the decimal integer before the first '='),
\* whatever follows that tag, it returned InvalidStandardHeader.
C1_AsStated ==
    (Returned /\ TagOf(stream) # <<>> /\ TagOf(stream)[1] # 8)
        => result = "InvalidStandardHeader"

\* C1 amended: whenever the first field of the stream is complete, so that
\* the field decoder yields it, and its tag is not 8, decode returns
\* InvalidStandardHeader at once, whatever follows that field.
C1_HeaderEnforced ==
    (Len(fields) >= 1 /\ TagOf(stream) # <<8>>)
        => /\ result = "InvalidStandardHeader"
           /\ Len(fields) = 1
           /\ pos = cuts[1]

\* A first field with a tag other than 8 was yielded, bytes follow it, and
\* decode returned InvalidStandardHeader.
C1_Witness ==
    /\ result = "InvalidStandardHeader"
    /\ Len(fields) = 1
    /\ fields[1].tag # 8
    /\ pos < Len(stream)

(***************************************************************************)
(* C2.  Header ordering.                                                   *)
(***************************************************************************)
\* C2: decode returns Ok only if the first three fields pulled have tags 8,
\* 9, 35 in that order, and then the message holds the keys 8, 9 and 35; a
\* second field that is not tag 9 after a tag 8, or a third that is not tag
\* 35 after tags 8 and 9, makes decode return InvalidStandardHeader.
C2_HeaderOrder ==
    /\ result = "Ok" => (HeaderYielded /\ {8, 9, 35} \subseteq DOMAIN message)
    /\ (Len(fields) >= 2 /\ fields[1].tag = 8 /\ fields[2].tag # 9)
          => (result = "InvalidStandardHeader" /\ Len(fields) = 2)
    /\ (Len(fields) >= 3 /\ fields[1].tag = 8 /\ fields[2].tag = 9
           /\ fields[3].tag # 35)
          => (result = "InvalidStandardHeader" /\ Len(fields) = 3)

\* Tags 8 and 9 were yielded, the third field had another tag than 35 and
\* decode returned InvalidStandardHeader.
C2_Witness ==
    /\ Len(fields) = 3
    /\ fields[1].tag = 8
    /\ fields[2].tag = 9
    /\ fields[3].tag # 35
    /\ result = "InvalidStandardHeader"

(***************************************************************************)
(* C3.  Trailer enforcement.                                               *)
(***************************************************************************)
\* The stream is a header 8, 9, 35 followed by complete fields, every one
\* yielded by the field decoder and ending in the separator, none with tag
\* 10, and ends there.
C3_NoTrailerStream ==
    /\ HeaderYielded
    /\ \A i \in 1..Len(fields) : fields[i].tag # 10 /\ stream[cuts[i]] = sep
    /\ cuts[Len(fields)] = Len(stream)
    /\ closed

\* C3: on a well-formed header followed by complete fields none of which has
\* tag 10, after which the stream ends, decode fails with
\* InvalidStandardTrailer; and decode returns Ok only when the last field
\* produced had tag 10.
C3_TrailerEnforced ==
    /\ (Decided /\ C3_NoTrailerStream) => result = "InvalidStandardTrailer"
    /\ result = "Ok" => fields[Len(fields)].tag = 10

\* A header and one body field without a trailer, then the end of the
\* stream: InvalidStandardTrailer.
C3_Witness ==
    /\ result = "InvalidStandardTrailer"
    /\ C3_NoTrailerStream
    /\ Len(fields) = 4

(***************************************************************************)
(* C4.  Truncation.                                                        *)
(***************************************************************************)
\* The bytes after the last separator of the stream.
C4_OpenField == SubSeq(stream, LastIndexOf(stream, sep) + 1, Len(stream))

\* C4 as stated, for the codecs with the empty dictionary (no tag is Data):
\* whenever decode has returned on a stream that ends right after the value
\* of a field, with no terminating separator, it returned Eof.
C4_AsStated ==
    (Returned /\ dict = EmptyDict /\ TagOf(C4_OpenField) # <<>>)
        => result = "Eof"

\* C4 amended: whenever the field decoder is pulled at a field whose tag
\* resolves to a type other than Data and the stream ends after that
\* field's value with no separator, decode returns Eof.
C4_Truncation ==
    [][(/\ Reads
        /\ TagOf(Ahead) # <<>>
        /\ lookup(dict, TagOf(Ahead)[1]) # "Data"
        /\ IndexOf(AfterEq(Ahead), sep) = 0)
          => result' = "Eof"]_vars

\* The header was yielded, the trailer field 10 was read without its
\* separator, and decode returned Eof.
C4_Witness ==
    /\ result = "Eof"
    /\ HeaderYielded
    /\ is_last
    /\ TagOf(SubSeq(stream, cuts[Len(fields)] + 1, Len(stream))) = <<10>>

(***************************************************************************)
(* C5.  Happy path.                                                        *)
(***************************************************************************)
\* The stream has the form 8=v s 9=v s 35=v s (t=v s)* 10=v s: every piece
\* is a decimal tag, '=' and a UTF-8 value without the separator.
C5_HappyForm ==
    LET ps == Pieces(stream, sep)
        n == Len(ps)
    IN  /\ n >= 4
        /\ \A i \in 1..n : 
              /\ ps[i] # <<-1>>
              /\ TagOf(ps[i]) # <<>>
              /\ IsUtf8(AfterEq(ps[i]))
              /\ (TagOf(ps[i]) = <<10>>) = (i = n)
        /\ TagOf(ps[1]) = <<8>>
        /\ TagOf(ps[2]) = <<9>>
        /\ TagOf(ps[3]) = <<35>>

\* The message such a stream spells: every tag that appears, with the
\* String of the value bytes of its last appearance.
C5_Spelled ==
    LET ps == Pieces(stream, sep)
        at(t) == CHOOSE i \in 1..Len(ps) :
                    /\ TagOf(ps[i]) = <<t>>
                    /\ \A j \in (i + 1)..Len(ps) : TagOf(ps[j]) # <<t>>
    IN  [t \in {TagOf(ps[i])[1] : i \in 1..Len(ps)} |->
            Value("String", AfterEq(ps[at(t)]))]

\* C5: with the empty dictionary, every stream of the form
\* 8=v s 9=v s 35=v s (t=v s)* 10=v s decodes to Ok, and the message holds
\* exactly the tags that appeared, each with the String of its value bytes.
C5_HappyPath ==
    (Decided /\ dict = EmptyDict /\ C5_HappyForm)
        => (result = "Ok" /\ message = C5_Spelled)

\* A header, one body field and the trailer were decoded to Ok.
C5_Witness ==
    /\ result = "Ok"
    /\ dict = EmptyDict
    /\ C5_HappyForm
    /\ Len(fields) = 5
    /\ Cardinality(DOMAIN message) = 5

(***************************************************************************)
(* C6.  Round trip.                                                        *)
(***************************************************************************)
\* C6 as stated: decode(encode(m)) on the same codec succeeds and gives back
\* the mapping of m, for every iteration order of m's fields.
C6_AsStated ==
    (Decided /\ orig # <<>>) => (result = "Ok" /\ message = orig[1])

(***************************************************************************)
(* C7.  Data-field exact consumption.                                      *)
(***************************************************************************)
\* The Int fields yielded so far.
C7_IntFields == {i \in 1..Len(fields) : fields[i].value.type = "Int"}

\* The value of the last of them.
C7_N == fields[CHOOSE i \in C7_IntFields : \A j \in C7_IntFields : j <= i].value.v[1]

\* C7 as stated: a field whose tag resolves to Data, decoded after an Int
\* field with value N >= 0 when at least N + 1 bytes follow its '=', is
\* yielded, and exactly its tag, the '=', N bytes and one more byte are
\* consumed.
C7_AsStated ==
    [][(/\ Reads
        /\ TagOf(Ahead) # <<>>
        /\ lookup(dict, TagOf(Ahead)[1]) = "Data"
        /\ C7_IntFields # {}
        /\ C7_N >= 0
        /\ Len(AfterEq(Ahead)) >= C7_N + 1)
          => (/\ Len(fields') = Len(fields) + 1
              /\ pos' = pos + IndexOf(Ahead, EQ) + C7_N + 1)]_vars

(***************************************************************************)
(* C8.  Syntax errors are returned as values.                              *)
(***************************************************************************)
\* The value bytes of the complete field in front of the decoder.
C8_Raw == SubSeq(AfterEq(Ahead), 1, IndexOf(AfterEq(Ahead), sep) - 1)

\* C8 as stated: when the raw value bytes of a complete String, Int or Float
\* field cannot be parsed as that type, decode returns Err(Syntax).
C8_AsStated ==
    [][(/\ Reads
        /\ TagOf(Ahead) # <<>>
        /\ lookup(dict, TagOf(Ahead)[1]) \in {"String", "Int", "Float"}
        /\ IndexOf(AfterEq(Ahead), sep) # 0
        /\ field_value(lookup(dict, TagOf(Ahead)[1]), C8_Raw).kind = "Err")
          => result' = "Syntax"]_vars

(***************************************************************************)
(* C9.  Exhaustion in the header.                                          *)
(***************************************************************************)
\* The stream ended right after i complete fields that were yielded.
C9_EndsAfter(i) ==
    /\ closed
    /\ Len(fields) = i
    /\ Len(stream) = (IF i = 0 THEN 0 ELSE cuts[i])

\* C9: when no byte is left on the very first pull decode returns Eof; when
\* the stream ends after a complete tag-8 field, or after complete tag-8 and
\* tag-9 fields, decode returns InvalidStandardHeader.
C9_HeaderExhaustion ==
    /\ (Decided /\ orig = <<>> /\ C9_EndsAfter(0)) => result = "Eof"
    /\ (Decided /\ C9_EndsAfter(1) /\ fields[1].tag = 8)
          => result = "InvalidStandardHeader"
    /\ (Decided /\ C9_EndsAfter(2) /\ fields[1].tag = 8 /\ fields[2].tag = 9)
          => result = "InvalidStandardHeader"

\* The stream ended after the tag-8 and tag-9 fields: InvalidStandardHeader.
C9_Witness ==
    /\ C9_EndsAfter(2)
    /\ fields[1].tag = 8
    /\ fields[2].tag = 9
    /\ result = "InvalidStandardHeader"

(***************************************************************************)
(* C10.  Checksum length.                                                  *)
(***************************************************************************)
\* The bytes folded for the i-th yielded field: its value bytes (what lies
\* between its '=' and its last byte), and one separator if it is Data.
C10_Folded(i) ==
    Len(AfterEq(Segment(i))) - 1
    + (IF fields[i].value.type = "Data" THEN 1 ELSE 0)

RECURSIVE C10_FoldedUpTo(_)
C10_FoldedUpTo(i) == IF i = 0 THEN 0 ELSE C10_FoldedUpTo(i - 1) + C10_Folded(i)

\* C10: across the fields yielded by one field decoder, Field.len is
\* non-decreasing and is the number of bytes folded so far: the value bytes
\* of every field yielded so far plus one separator byte per Data field.
C10_ChecksumLength ==
    /\ \A i \in 1..Len(fields) : fields[i].len = C10_FoldedUpTo(i)
    /\ \A i \in 2..Len(fields) : fields[i - 1].len <= fields[i].len

\* A Data field was yielded after fields with value bytes.
C10_Witness ==
    \E i \in 2..Len(fields) :
        /\ fields[i].value.type = "Data"
        /\ fields[i].len > fields[i - 1].len
        /\ fields[i - 1].len > 0

(***************************************************************************)
(* C11.  Decode computes but never compares the checksum.                  *)
(***************************************************************************)
\* The index of the last yielded field with tag t among the first n.
LastWith(t, n) ==
    CHOOSE i \in 1..n : fields[i].tag = t /\ \A j \in (i + 1)..n : fields[j].tag # t

\* C11: decode never returns InvalidChecksum; once the header and a tag-10
\* field have been yielded it returns Ok, whatever value the tag-10 field
\* carries and whatever validate_checksum says, and what the message holds
\* for the other tags is what the fields before the trailer gave.
C11_NeverCompared ==
    /\ result # "InvalidChecksum"
    /\ (Decided /\ HeaderYielded /\ fields[Len(fields)].tag = 10)
          => /\ result = "Ok"
             /\ \A t \in DOMAIN message \ {10} :
                   message[t] = fields[LastWith(t, Len(fields) - 1)].value

\* Ok although validation is asked for and the trailer's value is not the
\* checksum rolled over the fields before it.
C11_Witness ==
    /\ result = "Ok"
    /\ validate_checksum
    /\ ParseI64(fields[Len(fields)].value.v)
          # <<fields[Len(fields) - 1].checksum>>

(***************************************************************************)
(* C12.  Data values are verbatim.                                         *)
(***************************************************************************)
\* C12 as stated: a Data field yielded with pending length N holds exactly
\* the N bytes that followed its '=' in the stream, unchanged and in order.
C12_AsStated ==
    [][(/\ Reads
        /\ TagOf(Ahead) # <<>>
        /\ lookup(dict, TagOf(Ahead)[1]) = "Data"
        /\ Len(fields') = Len(fields) + 1)
          => fields'[Len(fields')].value
                = Value("Data", SubSeq(AfterEq(Ahead), 1, data_length.lo))]_vars

(***************************************************************************)
(* C13.  Tag 10 is the last field.                                         *)
(***************************************************************************)
\* C13: once the field decoder has read a field with tag 10, a later pull
\* ends the sequence without reading from the stream, so nothing is yielded
\* or inserted after it; a decode that returns Ok has consumed the stream
\* exactly through the separator that ends the first tag-10 field, and that
\* field is the last one yielded.
C13_TrailerIsLast ==
    [][/\ is_last => (/\ pos' = pos
                      /\ stream' = stream
                      /\ fields' = fields
                      /\ message' = message
                      /\ Decided')
       /\ result' = "Ok" =>
             (/\ fields'[Len(fields')].tag = 10
              /\ \A i \in 1..(Len(fields') - 1) : fields'[i].tag # 10
              /\ pos' = cuts'[Len(cuts')]
              /\ stream'[pos'] = sep)]_vars

\* Ok was returned and bytes that follow the trailer were left unconsumed.
C13_Witness ==
    /\ result = "Ok"
    /\ pos < Len(stream)
    /\ fields[Len(fields)].tag = 10

(***************************************************************************)
(* C14.  Checksum content.                                                 *)
(***************************************************************************)
RECURSIVE C14_ByteSum(_)
C14_ByteSum(h) == IF h = <<>> THEN 0 ELSE h[1] + C14_ByteSum(Tail(h))

\* The bytes folded for the i-th yielded field, taken from the stream: what
\* lies between its '=' and its last byte, and the separator if it is Data.
C14_Folded(i) ==
    LET after == AfterEq(Segment(i))
    IN  SubSeq(after, 1, Len(after) - 1)
        \o (IF fields[i].value.type = "Data" THEN <<sep>> ELSE <<>>)

RECURSIVE C14_SumUpTo(_)
C14_SumUpTo(i) ==
    IF i = 0 THEN 0 ELSE C14_SumUpTo(i - 1) + C14_ByteSum(C14_Folded(i))

\* C14: the checksum reported with each yielded field is, modulo 256, the
\* sum of the value bytes of all fields yielded so far plus one separator
\* byte per Data field; tag digits, '=' and the separators that end the
\* other fields are not in it, and it is never reset between fields.
C14_ChecksumContent ==
    \A i \in 1..Len(fields) : fields[i].checksum = C14_SumUpTo(i) % 256

\* The sum of the folded bytes has passed 255 and a Data field is among the
\* yielded fields.
C14_Witness ==
    /\ Len(fields) >= 2
    /\ C14_SumUpTo(Len(fields)) > 255
    /\ \E i \in 1..Len(fields) : fields[i].value.type = "Data"

(***************************************************************************)
(* C15.  Truncation inside a tag.                                          *)
(***************************************************************************)
\* C15 as stated: when the stream ends after one or more bytes of a tag and
\* before any '=', no field is yielded and decode returns Err(Eof).
C15_AsStated ==
    [][(Reads /\ Ahead # <<>> /\ IndexOf(Ahead, EQ) = 0)
          => (result' = "Eof" /\ fields' = fields)]_vars

(***************************************************************************)
(* C16.  The pending data length.                                          *)
(***************************************************************************)
\* The Int fields among the first n yielded fields.
C16_IntsBefore(n) == {i \in 1..n : fields[i].value.type = "Int"}

\* The pending length after the first n yielded fields, as the code keeps
\* it: the last Int value as u32, 0 before any Int.
C16_Pending(n) ==
    IF C16_IntsBefore(n) = {} THEN AsU32(0)
    ELSE AsU32(fields[CHOOSE i \in C16_IntsBefore(n) :
                         \A j \in C16_IntsBefore(n) : j <= i].value.v[1])

\* C16 as stated: the length the next Data field will be read with is the
\* value of the most recently parsed Int field, for every Int value.
C16_AsStated ==
    C7_IntFields # {} => (data_length.hi = 0 /\ data_length.lo = C7_N)

\* What the code keeps instead: the pending length is the value of the most
\* recently parsed Int field cast to u32 (0 before any Int field), fields
\* of other types leave it unchanged, and every Data field that is decoded
\* has read exactly that many value bytes.
C16_PendingLength ==
    /\ data_length = C16_Pending(Len(fields))
    /\ \A i \in 1..Len(fields) :
          fields[i].value.type = "Data"
             => /\ C16_Pending(i - 1).hi = 0
                /\ Len(fields[i].value.v) = C16_Pending(i - 1).lo
                /\ Len(AfterEq(Segment(i))) - 1 = C16_Pending(i - 1).lo

(***************************************************************************)
(* C17.  Zero-length Data read.                                            *)
(***************************************************************************)
\* C17 as stated: a Data field met with pending length 0 (before any Int
\* field, or after an Int field with value 0) and followed by at least one
\* byte is yielded with an empty Data value, and exactly its tag, the '='
\* and the one terminating byte are consumed.
C17_AsStated ==
    [][(/\ Reads
        /\ TagOf(Ahead) # <<>>
        /\ lookup(dict, TagOf(Ahead)[1]) = "Data"
        /\ data_length = AsU32(0)
        /\ Len(AfterEq(Ahead)) >= 1)
          => (/\ Len(fields') = Len(fields) + 1
              /\ fields'[Len(fields')].value = Value("Data", <<>>)
              /\ pos' = pos + IndexOf(Ahead, EQ) + 1)]_vars

(***************************************************************************)
(* C18.  Duplicate tags.                                                   *)
(***************************************************************************)
\* C18: decode never returns RepeatedTag; while it runs and when it returns
\* Ok, the message holds exactly the tags of the fields yielded so far and,
\* for each, the value of its last occurrence in stream order.
C18_LastWriteWins ==
    /\ result # "RepeatedTag"
    /\ result \in {"Running", "Ok"}
          => /\ DOMAIN message = {fields[i].tag : i \in 1..Len(fields)}
             /\ \A t \in DOMAIN message :
                   message[t] = fields[LastWith(t, Len(fields))].value

\* decode returned Ok for a stream whose body repeats a header tag with a
\* value other than the header's.
C18_Witness ==
    /\ result = "Ok"
    /\ \E j \in 4..Len(fields) : \E i \in 1..3 :
          /\ fields[j].tag = fields[i].tag
          /\ fields[j].value # fields[i].value

(***************************************************************************)
(* C19.  Finite field sequence.                                            *)
(***************************************************************************)
\* decode is inside one of its pulls.
C19_Pulling == pc \in {"BeginString", "BodyLength", "MsgType", "Body"}

\* C19: a pull that yields a field consumes at least one byte, a '=' among
\* them; a pull after tag 10 or with nothing left in the source yields
\* nothing and decode returns; the source is never read backwards; and
\* every pull either yields a field or makes decode return, so that the
\* bytes left in the source bound the pulls decode can still make.
C19_Finite ==
    [][/\ pos' >= pos
       /\ pos' <= Len(stream')
       /\ Len(fields') > Len(fields)
             => \E k \in (pos + 1)..pos' : stream'[k] = EQ
       /\ C19_Pulling => (Len(fields') > Len(fields) \/ pc' = "Done")
       /\ (C19_Pulling /\ (is_last \/ pos = Len(stream')))
             => (fields' = fields /\ pos' = pos /\ pc' = "Done")]_vars

\* decode returned after five yielded fields, the last pull made after the
\* tag-10 field with bytes still in the source.
C19_Witness ==
    /\ pc = "Done"
    /\ is_last
    /\ Len(fields) = 5
    /\ pos < Len(stream)

(***************************************************************************)
(* C20.  Totality.                                                         *)
(***************************************************************************)
\* C20 as stated: whatever the stream and the dictionary, decode never
\* aborts.
C20_AsStated == result # "Panic"

====
